---- MODULE Spec2Model ----
(***************************************************************************)
(* Model of the SeismoWatch zone monitor (seismowatch/alerts.py), the      *)
(* event source adapter it polls (seismowatch/earthquakes.py) and the CLI  *)
(* commands that construct and drive a monitor (seismowatch/cli.py).       *)
(*                                                                         *)
(* Units: latitude/longitude in whole degrees, magnitude in tenths         *)
(* (40 = M4.0), radius in km, time as a logical clock (0 = None).          *)
(***************************************************************************)
EXTENDS Integers, Sequences, FiniteSets, TLC

\* ------------------------------------------------------------------ bounds
MaxZones == 2      \* longest alert_zones list explored
MaxSinks == 2      \* longest notification_handlers list explored
MaxFetch == 2      \* most rows in one fetched DataFrame
MaxPolls == 2      \* number of poll cycles explored
MaxThreads == 2    \* polling threads one process gets to spawn
MaxDeg == 5        \* contains_earthquake is probed at coordinates in -MaxDeg..MaxDeg
MaxWebRows == 3    \* most rows the web app's fetch returns

\* --------------------------------------------------------- program constants
KmPerDegree == 111
\* min_magnitude of the poll's query (3.0), in tenths
FetchFloor == 30
\* min_magnitude of the web app's query (4.0), in tenths
WebFloor == 40

\* ------------------------------------------------------------- input pools
\* AlertZone(name, center_lat, center_lon, radius_km, min_magnitude)
AlertZone(n, la, lo, r, m) ==
    [name |-> n, center_lat |-> la, center_lon |-> lo, radius_km |-> r, min_magnitude |-> m]

ZoneA == AlertZone("A", 0, 0, 200, 40)
ZoneB == AlertZone("B", 1, 1, 200, 50)
ZonePool == {ZoneA, ZoneB}
\* A zone as `alert-zone --min-mag 2.0` builds it.
ZoneLow == AlertZone("Low", 0, 0, 200, 20)
\* The zones a monitor that is then started gets registered through the API.
LoopZonePool == {ZoneLow}

\* EarthquakeDashboard._setup_default_zones (centres in whole degrees).
DefaultZones ==
    << AlertZone("Global Major Events", 0, 0, 50000, 60),
       AlertZone("Pacific Ring of Fire", 0, -160, 15000, 50),
       AlertZone("California", 37, -119, 500, 40),
       AlertZone("Japan", 36, 138, 1000, 45) >>

\* The zone alert_test registers.
GlobalTestZone == AlertZone("Global Test Zone", 0, 0, 50000, 40)

\* One row of the adapter's DataFrame. Place, time and tsunami flag are what
\* the catalog reports for the event id; every depth is 10 km.
Quake(i, m, la, lo) ==
    [id |-> i, magnitude |-> m, latitude |-> la, longitude |-> lo,
     place |-> i, depth |-> 10, time |-> i, tsunami |-> i % 2]

Q1  == Quake(1, 50, 1, 1)   \* inside ZoneA and ZoneB
Q2  == Quake(2, 50, 5, 5)   \* inside neither
Q3  == Quake(3, 45, 0, 0)   \* inside ZoneA only (below ZoneB's magnitude floor)
Q3r == Quake(3, 50, 2, 2)   \* the source's revision of event 3: inside ZoneB only
Q0  == Quake(4, 25, 0, 0)   \* an M2.5 event at the centre of ZoneA and ZoneLow
\* What the catalog holds, and what it returns for a query with a magnitude
\* floor (the minmagnitude parameter).
Catalog == {Q0, Q1, Q2, Q3, Q3r}
query(min_magnitude) == {e \in Catalog : e.magnitude >= min_magnitude}
\* The rows check_for_earthquakes can get.
Events == query(FetchFloor)
\* What the catalog holds while the dashboard polls: an M6.5 off Chile and an
\* M4.7 next to the centre of the Japan zone.
Q6 == Quake(5, 65, -20, -70)
Q7 == Quake(6, 47, 36, 139)
DashEvents == {Q6, Q7}
Ids == {e.id : e \in Events \cup DashEvents}

\* Result sets the source can return: up to MaxFetch rows; an id may repeat in
\* one result only as the same row.
SeqsUpTo(S, n) == UNION {[1..k -> S] : k \in 0..n}
Frames == {d \in SeqsUpTo(Events, MaxFetch) :
             Len(d) > 0 /\ \A i, j \in 1..Len(d) : d[i].id = d[j].id => d[i] = d[j]}

SaveOutcomes == {"ok", "open_fails", "write_fails"}
SinkOutcomes == {"true", "false", "raise"}

\* Arguments for single contains_earthquake calls: zones around two centres
\* with a negative, a zero and positive radii, events on the degree grid with
\* magnitudes below, at and above the zones' floor.
ProbeRadii == {-1, 0, 111, 200}
ProbeZones == {AlertZone("Test", c, -c, r, 40) : c \in {0, 1}, r \in ProbeRadii}
ProbeQuakes == {Quake(0, mag, la, lo) : mag \in {39, 40, 50},
                                        la \in -MaxDeg..MaxDeg, lo \in -MaxDeg..MaxDeg}

\* Events all over the globe for the dashboard's default zones: the poles, the
\* date line, the zones' centres and points in between, with magnitudes
\* around the zones' floors.
WorldLats == {-90, -45, 0, 36, 37, 45, 90}
WorldLons == {-180, -160, -119, 0, 138, 180}
WorldMags == {39, 40, 45, 50, 59, 60, 65, 90}
WorldQuakes == {Quake(0, mag, la, lo) : mag \in WorldMags, la \in WorldLats, lo \in WorldLons}

VARIABLES
    alert_zones,            \* self.alert_zones: sequence of AlertZone
    notification_handlers,  \* len(self.notification_handlers); sinks are 1..n in registration order
    seen_earthquakes,       \* self.seen_earthquakes
    last_check,             \* self.last_check (0 = None)
    data_file,              \* content of alert_data.json
    clock,                  \* datetime.now(), advanced by each poll cycle
    cmd,                    \* what drives the monitor: "api" or "alert_test"
    pc,                     \* position of the driving thread
    \* the running check_for_earthquakes call
    df,                     \* the fetched DataFrame
    new_alerts,             \* new_alerts
    aidx, hidx,             \* dispatch loop position (alert, handler)
    poll,                   \* how the call proceeds or ended
    src_kind,               \* what the catalog did with the call's query
    seen0,                  \* seen_earthquakes when the call started
    calls,                  \* send_alert calls made by the call
    raised,                 \* a sink raised during the call
    escaped,                \* an exception left the call
    saved,                  \* outcome of the call's _save_state
    \* history
    sent,                   \* sent[id][h]: send_alert calls of this instance on sink h for event id
    sentBefore,             \* ids for which an earlier instance called send_alert
    loaded,                 \* how the constructor's _load_state went
    writer,                 \* the instance that wrote alert_data.json last (0 = nobody)
    \* start_monitoring / stop_monitoring and the polling threads
    running,                \* self.running
    thr,                    \* thr[t]: position of polling thread t
    last,                   \* last[t]: how thread t's latest finished cycle went
    stopped,                \* stopped[t]: stop_monitoring was called while thread t was alive
    late,                   \* late[t]: thread t entered a cycle after that call
    start_result,           \* what the latest start_monitoring call did
    \* a second monitor instance in the same working directory
    peer_live, peer_seen, peer_last_check,
    \* one contains_earthquake call on its own
    probe_zone, probe_eq, probe_result,
    \* what callers and clients got back
    status,                 \* <<the dict the latest get_status call returned>>, <<>> before any
    emitted,                \* the 'earthquake_alert' messages emitted on the socket, in order
    web_req, web_resp,      \* the web app's latest request and its response (<<>> before any)
    \* history of this monitor instance
    missed,                 \* ids a poll scanned while no registered zone contained the row
    undelivered             \* ids with a send_alert call that returned False or raised

vars == <<alert_zones, notification_handlers, seen_earthquakes, last_check, data_file,
          clock, cmd, pc, df, new_alerts, aidx, hidx, poll, src_kind,
          seen0, calls, raised, escaped, saved, sent, sentBefore, loaded, writer,
          running, thr, last, stopped, late, start_result,
          peer_live, peer_seen, peer_last_check,
          probe_zone, probe_eq, probe_result,
          status, emitted, web_req, web_resp, missed, undelivered>>

callvars == <<df, new_alerts, aidx, hidx, poll, src_kind, seen0, calls, raised, escaped, saved>>
loopvars == <<running, thr, last, stopped, late, start_result>>
peervars == <<peer_live, peer_seen, peer_last_check>>
probevars == <<probe_zone, probe_eq, probe_result>>
viewvars == <<status, emitted, web_req, web_resp>>
histvars == <<missed, undelivered>>

\* ------------------------------------------------------------- AlertZone
Abs(x) == IF x < 0 THEN -x ELSE x

\* Mutant: the radius test is exclusive.
WithinRadius_exclusive(zone, lat, lon) ==
    LET lat_diff == Abs(zone.center_lat - lat)
        lon_diff == Abs(zone.center_lon - lon)
        d2 == (lat_diff * KmPerDegree) * (lat_diff * KmPerDegree)
              + (lon_diff * KmPerDegree) * (lon_diff * KmPerDegree)
        r == zone.radius_km
    IN r > 0 /\ d2 \div r < r

\* Mutant: the two axes are added instead of combined by Pythagoras.
WithinRadius_manhattan(zone, lat, lon) ==
    (Abs(zone.center_lat - lat) + Abs(zone.center_lon - lon)) * KmPerDegree <= zone.radius_km

\* distance_km <= radius_km, with distance_km = sqrt((dlat*111)^2 + (dlon*111)^2),
\* compared on the squares (distance_km >= 0): d2 <= r*r, written with a
\* rounded-up division so that r*r is never formed (it exceeds 32 bits for
\* the 50000 km zones).
WithinRadius(zone, lat, lon) ==
    LET lat_diff == Abs(zone.center_lat - lat)
        lon_diff == Abs(zone.center_lon - lon)
        d2 == (lat_diff * KmPerDegree) * (lat_diff * KmPerDegree)
              + (lon_diff * KmPerDegree) * (lon_diff * KmPerDegree)
        r == zone.radius_km
    IN IF r > 0 THEN (d2 + r - 1) \div r <= r
       ELSE r = 0 /\ d2 = 0

\* Mutant: a magnitude equal to the floor is rejected too.
contains_earthquake_strict_floor(zone, lat, lon, magnitude) ==
    IF magnitude <= zone.min_magnitude THEN FALSE
    ELSE WithinRadius(zone, lat, lon)

\* Mutant: the magnitude floor is not applied.
contains_earthquake_no_floor(zone, lat, lon, magnitude) ==
    WithinRadius(zone, lat, lon)

contains_earthquake(zone, lat, lon, magnitude) ==
    IF magnitude < zone.min_magnitude THEN FALSE
    ELSE WithinRadius(zone, lat, lon)

Contains(zone, eq) == contains_earthquake(zone, eq.latitude, eq.longitude, eq.magnitude)

\* ------------------------------------------------------------- persistence
AbsentFile  == [state |-> "absent",  seen_earthquakes |-> {}, last_check |-> 0]
CorruptFile == [state |-> "corrupt", seen_earthquakes |-> {}, last_check |-> 0]
\* Valid JSON with a seen_earthquakes list and a last_check string that
\* datetime.fromisoformat rejects (a file from elsewhere, e.g. "...T10:00:00Z").
BadDateFile == [state |-> "bad_last_check", seen_earthquakes |-> {1}, last_check |-> 0]

\* _save_state: json.dump of seen_earthquakes and last_check; any failure is
\* caught. open() failing leaves the file as it was, a failure after
\* open(..., 'w') leaves a truncated file.
save_state(file, seen, lc, outcome) ==
    CASE outcome = "ok" -> [state |-> "valid", seen_earthquakes |-> seen, last_check |-> lc]
      [] outcome = "open_fails" -> file
      [] OTHER -> CorruptFile

\* Who wrote the file last, after instance i's _save_state with that outcome.
wrote(w, i, outcome) == IF outcome = "open_fails" THEN w ELSE i

\* _load_state: what the constructor ends with. No file: nothing is read. An
\* unreadable file or invalid JSON raises before anything is assigned. A
\* last_check that does not parse raises after seen_earthquakes was assigned.
\* Every exception is caught.
load_state(file, readable) ==
    CASE file.state = "absent" -> [seen_earthquakes |-> {}, last_check |-> 0, how |-> "absent"]
      [] file.state = "valid" /\ readable ->
            [seen_earthquakes |-> file.seen_earthquakes, last_check |-> file.last_check,
             how |-> "ok"]
      [] file.state = "bad_last_check" /\ readable ->
            [seen_earthquakes |-> file.seen_earthquakes, last_check |-> 0, how |-> "failed"]
      [] OTHER -> [seen_earthquakes |-> {}, last_check |-> 0, how |-> "failed"]

\* ------------------------------------------------------------- the adapter
\* What the catalog does with one query: answers with rows (possibly none),
\* fails with a requests.RequestException (connection error, timeout, HTTP
\* error status), or answers with a body the parsing loop chokes on.
Sources == [kind : {"rows"}, rows : Frames \cup {<<>>}]
           \cup [kind : {"request_error", "parse_error"}, rows : {<<>>}]

\* Mutant: fetch_earthquakes without its except clause.
fetch_earthquakes_uncaught(src) ==
    CASE src.kind = "rows" -> [raises |-> FALSE, rows |-> src.rows]
      [] OTHER -> [raises |-> TRUE, rows |-> <<>>]

\* fetch_earthquakes: a RequestException is caught and an empty DataFrame
\* returned; any other exception propagates to the caller.
fetch_earthquakes(src) ==
    CASE src.kind = "rows" -> [raises |-> FALSE, rows |-> src.rows]
      [] src.kind = "request_error" -> [raises |-> FALSE, rows |-> <<>>]
      [] OTHER -> [raises |-> TRUE, rows |-> <<>>]

\* ------------------------------------------------------------- the scan
\* Mutant: the seen check is missing.
already_seen_never(eq_id, seen) == FALSE

\* line 213: if eq_id in self.seen_earthquakes: continue
already_seen(eq_id, seen) == eq_id \in seen

\* Mutant: the scan keeps the last matching zone (no break).
last_match(zones, eq) ==
    LET hits == {i \in 1..Len(zones) : Contains(zones[i], eq)}
    IN IF hits = {} THEN 0 ELSE CHOOSE i \in hits : \A j \in hits : j <= i

\* lines 217-236: index of the zone the for loop breaks at, 0 when it runs out.
first_match(zones, eq) ==
    LET hits == {i \in 1..Len(zones) : Contains(zones[i], eq)}
    IN IF hits = {} THEN 0 ELSE CHOOSE i \in hits : \A j \in hits : i <= j

\* lines 223-234: the EarthquakeAlert built for a match.
EarthquakeAlert(eq, zone, now) ==
    [magnitude |-> eq.magnitude, latitude |-> eq.latitude, longitude |-> eq.longitude,
     depth |-> eq.depth, time |-> eq.time, earthquake_id |-> eq.id,
     location |-> eq.place, zone_name |-> zone.name, alert_time |-> now,
     tsunami_warning |-> (eq.tsunami # 0)]

\* Mutant: only events that raised an alert are marked.
mark_seen_if_matched(seen, eq_id, matched) == IF matched THEN seen \cup {eq_id} ELSE seen

\* line 239: self.seen_earthquakes.add(eq_id), whatever the zone scan found.
mark_seen(seen, eq_id, matched) == seen \cup {eq_id}

\* lines 209-239: the loop over the rows, from row i on; now is the cycle's
\* datetime.now().
RECURSIVE scan(_, _, _, _, _, _)
scan(rows, i, zones, seen, alerts, now) ==
    IF i > Len(rows) THEN [seen |-> seen, alerts |-> alerts]
    ELSE LET eq == rows[i] IN
         IF already_seen(eq.id, seen) THEN scan(rows, i + 1, zones, seen, alerts, now)
         ELSE LET z == first_match(zones, eq) IN
              scan(rows, i + 1, zones, mark_seen(seen, eq.id, z # 0),
                   IF z = 0 THEN alerts
                   ELSE Append(alerts, EarthquakeAlert(eq, zones[z], now)), now)

\* The ids of the rows that no zone of the list contains.
unmatched(rows, zones) == {rows[i].id : i \in {j \in 1..Len(rows) : first_match(zones, rows[j]) = 0}}

\* ------------------------------------------------------------- the dashboard's sink
\* datetime.isoformat(): the ISO 8601 text of a time.
isoformat(t) == <<"iso8601", t>>
fromisoformat(text) == text[2]

\* Mutant: the handler sends the alert time as the event time.
send_alert_alert_time_as_time(alert) ==
    [emit |-> [id |-> alert.earthquake_id, magnitude |-> alert.magnitude,
               latitude |-> alert.latitude, longitude |-> alert.longitude,
               depth |-> alert.depth, time |-> isoformat(alert.alert_time),
               location |-> alert.location, zone_name |-> alert.zone_name,
               alert_time |-> isoformat(alert.alert_time),
               tsunami_warning |-> alert.tsunami_warning],
     returns |-> "true"]

\* DashboardNotificationHandler.send_alert: the alert_data dict it emits as
\* 'earthquake_alert' and what it returns.
send_alert_dashboard(alert) ==
    [emit |-> [id |-> alert.earthquake_id, magnitude |-> alert.magnitude,
               latitude |-> alert.latitude, longitude |-> alert.longitude,
               depth |-> alert.depth, time |-> isoformat(alert.time),
               location |-> alert.location, zone_name |-> alert.zone_name,
               alert_time |-> isoformat(alert.alert_time),
               tsunami_warning |-> alert.tsunami_warning],
     returns |-> "true"]

\* ------------------------------------------------------------- the dispatch
\* Mutant: a raising sink is not isolated.
sink_failure_aborts(outcome) == outcome # "raise"

\* lines 244-247: try/except around each send_alert; dispatch goes on.
sink_failure_isolated(outcome) == TRUE

\* Mutant: the handler loop stops after the first handler.
next_dispatch_first_only(a, h, nAlerts, nHandlers) ==
    IF a < nAlerts THEN [done |-> FALSE, a |-> a + 1, h |-> 1]
    ELSE [done |-> TRUE, a |-> a, h |-> h]

\* lines 242-243: for alert in new_alerts: for handler in handlers.
next_dispatch(a, h, nAlerts, nHandlers) ==
    IF h < nHandlers THEN [done |-> FALSE, a |-> a, h |-> h + 1]
    ELSE IF a < nAlerts THEN [done |-> FALSE, a |-> a + 1, h |-> 1]
    ELSE [done |-> TRUE, a |-> a, h |-> h]

\* Mutant: the cycle's handler catches request errors only.
cycle_catches_requests_only(kind) == kind = "request_error"

\* lines 196, 257-258: try ... except Exception around the whole cycle.
cycle_catches(kind) == TRUE

\* ------------------------------------------------------------- Init
Sent0 == [i \in Ids |-> [h \in 1..MaxSinks |-> 0]]
Threads == 1..MaxThreads
NoThreads == [t \in Threads |-> "none"]
NoFlags == [t \in Threads |-> FALSE]

\* EarthquakeMonitor.__init__ before _load_state; no check_for_earthquakes
\* call is running.
Constructed ==
    /\ alert_zones = <<>> /\ notification_handlers = 0
    /\ seen_earthquakes = {} /\ last_check = 0
    /\ pc = "load"
    /\ df = <<>> /\ new_alerts = <<>> /\ aidx = 1 /\ hidx = 1
    /\ poll = "none" /\ src_kind = "none" /\ seen0 = {} /\ calls = 0
    /\ raised = FALSE /\ escaped = FALSE /\ saved = "none"
    /\ sent = Sent0
    /\ loaded = "none"
    /\ running = FALSE /\ thr = NoThreads /\ last = [t \in Threads |-> "none"]
    /\ stopped = NoFlags /\ late = NoFlags /\ start_result = "none"
    /\ emitted = <<>> /\ missed = {} /\ undelivered = {}

\* No second instance, no separate contains_earthquake call.
NoPeer == peer_live = FALSE /\ peer_seen = {} /\ peer_last_check = 0
\* Nobody has asked for the status, no request has reached the web app.
NoViews == status = <<>> /\ web_req = <<>> /\ web_resp = <<>>
Alone ==
    /\ NoPeer /\ NoViews
    /\ probe_zone = ZoneA /\ probe_eq = Q1 /\ probe_result = "none"

\* One process in a fresh working directory: an EarthquakeMonitor has been
\* constructed and is about to look for its state file.
Init ==
    /\ Constructed /\ Alone
    /\ data_file = AbsentFile /\ writer = 0
    /\ clock = 1 /\ cmd = "api" /\ sentBefore = {}

\* The first process of a working directory, started by any CLI command; the
\* directory is fresh or holds a state file from elsewhere.
InitCli ==
    /\ Constructed /\ Alone
    /\ data_file \in {AbsentFile, BadDateFile} /\ writer = 0
    /\ clock = 1 /\ cmd \in {"api", "alert_test"} /\ sentBefore = {}

\* ------------------------------------------------------------- construction
\* EarthquakeMonitor.__init__ up to the call of _load_state, in a new process
\* (the previous one has exited or was killed, wherever it was).
Construct(c) ==
    /\ cmd' = c /\ pc' = "load"
    /\ alert_zones' = <<>> /\ notification_handlers' = 0
    /\ seen_earthquakes' = {} /\ last_check' = 0
    /\ sentBefore' = sentBefore \cup {i \in Ids : \E h \in DOMAIN sent[i] : sent[i][h] > 0}
    /\ sent' = Sent0
    /\ df' = <<>> /\ new_alerts' = <<>> /\ aidx' = 1 /\ hidx' = 1
    /\ poll' = "none" /\ src_kind' = "none" /\ seen0' = {} /\ calls' = 0
    /\ raised' = FALSE /\ escaped' = FALSE /\ saved' = "none"
    /\ loaded' = "none"
    /\ running' = FALSE /\ thr' = NoThreads /\ last' = [t \in Threads |-> "none"]
    /\ stopped' = NoFlags /\ late' = NoFlags /\ start_result' = "none"
    /\ emitted' = <<>> /\ missed' = {} /\ undelivered' = {}
    /\ UNCHANGED <<data_file, clock, writer, peervars, probevars, status, web_req, web_resp>>

Load(readable) ==
    /\ pc = "load"
    /\ LET st == load_state(data_file, readable) IN
         /\ seen_earthquakes' = st.seen_earthquakes
         /\ last_check' = st.last_check
         /\ loaded' = st.how
    /\ pc' = IF cmd \in {"alert_test", "dashboard"} THEN "setup" ELSE "idle"
    /\ UNCHANGED <<alert_zones, notification_handlers, data_file, clock, cmd, sent, sentBefore,
                   writer>>
    /\ UNCHANGED <<callvars, loopvars, peervars, probevars, viewvars, histvars>>

\* ------------------------------------------------------------- monitor API
add_alert_zone(zone, outcome) ==
    /\ alert_zones' = Append(alert_zones, zone)
    /\ data_file' = save_state(data_file, seen_earthquakes, last_check, outcome)
    /\ writer' = wrote(writer, 1, outcome)

AddAlertZone(zone, outcome) ==
    /\ pc = "idle" /\ cmd = "api"
    /\ Len(alert_zones) < MaxZones
    /\ add_alert_zone(zone, outcome)
    /\ UNCHANGED <<notification_handlers, seen_earthquakes, last_check, clock, cmd, pc,
                   sent, sentBefore, loaded>>
    /\ UNCHANGED <<callvars, loopvars, peervars, probevars, viewvars, histvars>>

AddNotificationHandler ==
    /\ pc = "idle" /\ cmd = "api"
    /\ notification_handlers < MaxSinks
    /\ notification_handlers' = notification_handlers + 1
    /\ UNCHANGED <<alert_zones, seen_earthquakes, last_check, data_file, clock, cmd, pc,
                   sent, sentBefore, loaded, writer>>
    /\ UNCHANGED <<callvars, loopvars, peervars, probevars, viewvars, histvars>>

\* ------------------------------------------------------------- alert_test
\* cli.alert_test lines 129-131: the global zone and a console handler.
AlertTestSetup(outcome) ==
    /\ pc = "setup" /\ cmd = "alert_test"
    /\ add_alert_zone(GlobalTestZone, outcome)
    /\ notification_handlers' = notification_handlers + 1
    /\ pc' = "clear"
    /\ UNCHANGED <<seen_earthquakes, last_check, clock, cmd, sent, sentBefore, loaded>>
    /\ UNCHANGED <<callvars, loopvars, peervars, probevars, viewvars, histvars>>

\* cli.alert_test line 134: monitor.seen_earthquakes.clear()
AlertTestClear ==
    /\ pc = "clear"
    /\ seen_earthquakes' = {}
    /\ pc' = "idle"
    /\ UNCHANGED <<alert_zones, notification_handlers, last_check, data_file, clock, cmd,
                   sent, sentBefore, loaded, writer>>
    /\ UNCHANGED <<callvars, loopvars, peervars, probevars, viewvars, histvars>>

\* ------------------------------------------------------------- the poll cycle
Polls == clock - 1
CanPoll == pc = "idle" /\ Polls < MaxPolls

RowIds(rows) == {rows[i].id : i \in 1..Len(rows)}
RowOf(rows, id) == rows[CHOOSE i \in 1..Len(rows) : rows[i].id = id]

\* check_for_earthquakes lines 196-239: the fetch, the empty-result return and
\* the scan of the rows.
CheckBegin(src) ==
    /\ CanPoll
    /\ clock' = clock + 1
    /\ seen0' = seen_earthquakes
    /\ src_kind' = src.kind
    /\ calls' = 0 /\ raised' = FALSE /\ saved' = "none" /\ aidx' = 1 /\ hidx' = 1
    /\ LET r == fetch_earthquakes(src) IN
       IF r.raises THEN
            /\ poll' = "error" /\ escaped' = ~cycle_catches(src.kind) /\ pc' = "return"
            /\ df' = <<>> /\ new_alerts' = <<>>
            /\ UNCHANGED <<seen_earthquakes, missed>>
       ELSE IF r.rows = <<>> THEN
            /\ poll' = "empty" /\ escaped' = FALSE /\ pc' = "return"
            /\ df' = <<>> /\ new_alerts' = <<>>
            /\ UNCHANGED <<seen_earthquakes, missed>>
       ELSE LET s == scan(r.rows, 1, alert_zones, seen_earthquakes, <<>>, clock + 1) IN
            /\ df' = r.rows
            /\ seen_earthquakes' = s.seen
            /\ missed' = missed \cup unmatched(r.rows, alert_zones)
            /\ new_alerts' = s.alerts
            /\ poll' = "running" /\ escaped' = FALSE
            /\ pc' = IF s.alerts # <<>> /\ notification_handlers > 0 THEN "dispatch" ELSE "finish"
    /\ UNCHANGED <<alert_zones, notification_handlers, last_check, data_file, cmd, sent, sentBefore,
                   loaded, writer>>
    /\ UNCHANGED <<loopvars, peervars, probevars, viewvars, undelivered>>

\* lines 242-247: one handler.send_alert(alert) call and what the loops do next.
Dispatch(outcome) ==
    /\ pc = "dispatch"
    /\ cmd = "dashboard" => outcome = send_alert_dashboard(new_alerts[aidx]).returns
    /\ LET id == new_alerts[aidx].earthquake_id IN
         /\ sent' = [sent EXCEPT ![id][hidx] = @ + 1]
         /\ undelivered' = IF outcome = "true" THEN undelivered ELSE undelivered \cup {id}
    /\ emitted' = IF cmd = "dashboard"
                  THEN Append(emitted, send_alert_dashboard(new_alerts[aidx]).emit)
                  ELSE emitted
    /\ calls' = calls + 1
    /\ raised' = (raised \/ outcome = "raise")
    /\ IF sink_failure_isolated(outcome) THEN
            LET n == next_dispatch(aidx, hidx, Len(new_alerts), notification_handlers) IN
            /\ aidx' = n.a /\ hidx' = n.h
            /\ pc' = IF n.done THEN "finish" ELSE "dispatch"
            /\ UNCHANGED <<poll, escaped>>
       ELSE /\ poll' = "error" /\ escaped' = ~cycle_catches("sink") /\ pc' = "return"
            /\ UNCHANGED <<aidx, hidx>>
    /\ UNCHANGED <<alert_zones, notification_handlers, seen_earthquakes, last_check, data_file,
                   clock, cmd, df, new_alerts, src_kind, seen0, saved, sentBefore,
                   loaded, writer>>
    /\ UNCHANGED <<loopvars, peervars, probevars, status, web_req, web_resp, missed>>

\* lines 249-250: last_check = datetime.now(); _save_state()
Finish(outcome) ==
    /\ pc = "finish"
    /\ last_check' = clock
    /\ data_file' = save_state(data_file, seen_earthquakes, clock, outcome)
    /\ saved' = outcome
    /\ writer' = wrote(writer, 1, outcome)
    /\ poll' = "complete" /\ pc' = "return"
    /\ UNCHANGED <<alert_zones, notification_handlers, seen_earthquakes, clock, cmd,
                   df, new_alerts, aidx, hidx, src_kind, seen0, calls, raised, escaped,
                   sent, sentBefore, loaded>>
    /\ UNCHANGED <<loopvars, peervars, probevars, viewvars, histvars>>

\* check_for_earthquakes returns: its locals are gone. alert_test exits after
\* its one check; any other caller goes on.
Return ==
    /\ pc = "return"
    /\ pc' = IF cmd = "alert_test" THEN "exit" ELSE "idle"
    /\ df' = <<>> /\ new_alerts' = <<>> /\ aidx' = 1 /\ hidx' = 1
    /\ poll' = "none" /\ src_kind' = "none" /\ seen0' = {} /\ calls' = 0
    /\ raised' = FALSE /\ escaped' = FALSE /\ saved' = "none"
    /\ UNCHANGED <<alert_zones, notification_handlers, seen_earthquakes, last_check, data_file,
                   clock, cmd, sent, sentBefore, loaded, writer>>
    /\ UNCHANGED <<loopvars, peervars, probevars, viewvars, histvars>>

\* ------------------------------------------------------------- dashboard
\* EarthquakeDashboard.__init__ lines 50-58: the monitor gets the WebSocket
\* handler and the four default zones. Each add_alert_zone saves the same
\* content, so the file ends as the last save that got to open it left it.
DashboardSetup(outcome) ==
    /\ pc = "setup" /\ cmd = "dashboard"
    /\ notification_handlers' = notification_handlers + 1
    /\ alert_zones' = alert_zones \o DefaultZones
    /\ data_file' = save_state(data_file, seen_earthquakes, last_check, outcome)
    /\ writer' = wrote(writer, 1, outcome)
    /\ pc' = "idle"
    /\ UNCHANGED <<seen_earthquakes, last_check, clock, cmd, sent, sentBefore, loaded>>
    /\ UNCHANGED <<callvars, loopvars, peervars, probevars, viewvars, histvars>>

\* ------------------------------------------------------------- monitoring loop
\* Thread positions: "none" (not spawned), "test" (at the while condition),
\* "check" (inside check_for_earthquakes), "sleep" (in time.sleep), "done".
Alive(t) == thr[t] \in {"test", "check", "sleep"}
FreeThread == CHOOSE t \in Threads : thr[t] = "none" /\ \A u \in Threads : thr[u] = "none" => t <= u

\* Mutant: start_monitoring without its configuration checks.
start_unchecked(is_running, zones, handlers) ==
    IF is_running THEN "already" ELSE "started"

\* start_monitoring lines 262-272: the three early returns.
start_checks(is_running, zones, handlers) ==
    IF is_running THEN "already"
    ELSE IF zones = <<>> THEN "no_zones"
    ELSE IF handlers = 0 THEN "no_handlers"
    ELSE "started"

\* EarthquakeMonitor.start_monitoring: after the checks, running is set, the
\* thread is started and the caller waits in monitor_thread.join().
StartMonitoring ==
    /\ pc \in {"idle", "join"} /\ cmd = "api"
    /\ \E t \in Threads : thr[t] = "none"
    /\ LET r == start_checks(running, alert_zones, notification_handlers) IN
         /\ start_result' = r
         /\ IF r = "started"
            THEN /\ running' = TRUE
                 /\ thr' = [thr EXCEPT ![FreeThread] = "test"]
                 /\ pc' = "join"
            ELSE UNCHANGED <<running, thr, pc>>
    /\ UNCHANGED <<alert_zones, notification_handlers, seen_earthquakes, last_check, data_file,
                   clock, cmd, sent, sentBefore, loaded, writer, last, stopped, late>>
    /\ UNCHANGED <<callvars, peervars, probevars, viewvars, histvars>>

\* stop_monitoring, called directly or by the KeyboardInterrupt handler around
\* join(), which then lets start_monitoring return.
StopMonitoring ==
    /\ pc \in {"idle", "join"} /\ cmd = "api"
    /\ running' = FALSE
    /\ stopped' = [t \in Threads |-> stopped[t] \/ Alive(t)]
    /\ pc' = "idle"
    /\ UNCHANGED <<alert_zones, notification_handlers, seen_earthquakes, last_check, data_file,
                   clock, cmd, sent, sentBefore, loaded, writer, thr, last, late, start_result>>
    /\ UNCHANGED <<callvars, peervars, probevars, viewvars, histvars>>

\* EarthquakeDashboard.start_monitoring: returns when its thread is alive,
\* else starts one; no other check, and the caller does not wait.
DashboardStart ==
    /\ pc = "idle" /\ cmd = "dashboard"
    /\ \E t \in Threads : thr[t] = "none"
    /\ IF \E t \in Threads : Alive(t)
       THEN start_result' = "already" /\ UNCHANGED thr
       ELSE start_result' = "started" /\ thr' = [thr EXCEPT ![FreeThread] = "test"]
    /\ UNCHANGED <<alert_zones, notification_handlers, seen_earthquakes, last_check, data_file,
                   clock, cmd, pc, sent, sentBefore, loaded, writer, running, last, stopped, late>>
    /\ UNCHANGED <<callvars, peervars, probevars, viewvars, histvars>>

\* The loop condition: `while self.running` in the monitor's loop, `while True`
\* in the dashboard's.
loop_condition(c, is_running) == c = "dashboard" \/ is_running

LoopTest(t) ==
    /\ thr[t] = "test"
    /\ LET go == loop_condition(cmd, running) IN
         /\ thr' = [thr EXCEPT ![t] = IF go THEN "check" ELSE "done"]
         /\ late' = [late EXCEPT ![t] = @ \/ (go /\ stopped[t])]
    /\ UNCHANGED <<alert_zones, notification_handlers, seen_earthquakes, last_check, data_file,
                   clock, cmd, pc, sent, sentBefore, loaded, writer, running, last, stopped,
                   start_result>>
    /\ UNCHANGED <<callvars, peervars, probevars, viewvars, histvars>>

\* Mutant: the loop ends when a cycle failed.
after_cycle_break(failed) == IF failed THEN "done" ELSE "sleep"

\* monitor_loop lines 282-290: time.sleep after the check and in the except
\* clause alike; the loop goes on.
after_cycle(failed) == "sleep"

\* The clock after another poll cycle (it stops at MaxPolls cycles).
Tick == IF Polls < MaxPolls THEN clock + 1 ELSE clock

\* The send_alert calls of one cycle: every handler once for every alert.
dispatch_all(snt, alerts, handlers) ==
    [i \in Ids |-> [h \in 1..MaxSinks |->
        snt[i][h] + Cardinality({k \in 1..Len(alerts) :
                                   alerts[k].earthquake_id = i /\ h <= handlers})]]

\* One check_for_earthquakes call of polling thread t, as one step.
LoopCheck(t, src, outcome) ==
    /\ thr[t] = "check"
    /\ clock' = Tick
    /\ LET r == fetch_earthquakes(src)
           failed == r.raises \/ src.kind = "request_error"
       IN /\ thr' = [thr EXCEPT ![t] = after_cycle(failed)]
          /\ last' = [last EXCEPT ![t] = IF failed THEN "failed" ELSE "ok"]
          /\ IF r.raises \/ r.rows = <<>>
             THEN UNCHANGED <<seen_earthquakes, last_check, data_file, writer, sent,
                              emitted, missed, undelivered>>
             ELSE LET s == scan(r.rows, 1, alert_zones, seen_earthquakes, <<>>, Tick)
                      offered == IF notification_handlers = 0 THEN {}
                                 ELSE {s.alerts[k].earthquake_id : k \in DOMAIN s.alerts}
                  IN
                  /\ seen_earthquakes' = s.seen
                  /\ missed' = missed \cup unmatched(r.rows, alert_zones)
                  /\ sent' = dispatch_all(sent, s.alerts, notification_handlers)
                  /\ IF cmd = "dashboard"
                     THEN /\ emitted' = emitted \o [k \in DOMAIN s.alerts |->
                                                      send_alert_dashboard(s.alerts[k]).emit]
                          /\ UNCHANGED undelivered
                     ELSE /\ \E bad \in SUBSET offered : undelivered' = undelivered \cup bad
                          /\ UNCHANGED emitted
                  /\ last_check' = Tick
                  /\ data_file' = save_state(data_file, s.seen, Tick, outcome)
                  /\ writer' = wrote(writer, 1, outcome)
    /\ UNCHANGED <<alert_zones, notification_handlers, cmd, pc, sentBefore, loaded,
                   running, stopped, late, start_result>>
    /\ UNCHANGED <<callvars, peervars, probevars, status, web_req, web_resp>>

\* time.sleep(check_interval) returns.
LoopWake(t) ==
    /\ thr[t] = "sleep"
    /\ thr' = [thr EXCEPT ![t] = "test"]
    /\ UNCHANGED <<alert_zones, notification_handlers, seen_earthquakes, last_check, data_file,
                   clock, cmd, pc, sent, sentBefore, loaded, writer, running, last, stopped,
                   late, start_result>>
    /\ UNCHANGED <<callvars, peervars, probevars, viewvars, histvars>>

\* ------------------------------------------------------------- a second instance
\* Another EarthquakeMonitor is constructed in the same working directory (in
\* this process or another): its data_file is the same "alert_data.json".
PeerConstruct(readable) ==
    /\ ~peer_live
    /\ peer_live' = TRUE
    /\ LET st == load_state(data_file, readable) IN
         /\ peer_seen' = st.seen_earthquakes
         /\ peer_last_check' = st.last_check
    /\ UNCHANGED <<alert_zones, notification_handlers, seen_earthquakes, last_check, data_file,
                   clock, cmd, pc, sent, sentBefore, loaded, writer>>
    /\ UNCHANGED <<callvars, loopvars, probevars, viewvars, histvars>>

\* One check_for_earthquakes call of the second instance (no zones
\* registered), as one step.
PeerPoll(src, outcome) ==
    /\ peer_live /\ Polls < MaxPolls
    /\ clock' = clock + 1
    /\ LET r == fetch_earthquakes(src) IN
         IF r.raises \/ r.rows = <<>>
         THEN UNCHANGED <<peer_seen, peer_last_check, data_file, writer>>
         ELSE LET s == scan(r.rows, 1, <<>>, peer_seen, <<>>, clock + 1) IN
              /\ peer_seen' = s.seen
              /\ peer_last_check' = clock + 1
              /\ data_file' = save_state(data_file, s.seen, clock + 1, outcome)
              /\ writer' = wrote(writer, 2, outcome)
    /\ UNCHANGED <<alert_zones, notification_handlers, seen_earthquakes, last_check,
                   cmd, pc, sent, sentBefore, loaded, peer_live>>
    /\ UNCHANGED <<callvars, loopvars, probevars, viewvars, histvars>>

\* ------------------------------------------------------------- one zone test
\* zone.contains_earthquake(lat, lon, magnitude) for the drawn arguments.
Probe ==
    /\ probe_result = "none"
    /\ probe_result' =
          IF contains_earthquake(probe_zone, probe_eq.latitude, probe_eq.longitude,
                                 probe_eq.magnitude)
          THEN "true" ELSE "false"
    /\ UNCHANGED <<alert_zones, notification_handlers, seen_earthquakes, last_check, data_file,
                   clock, cmd, pc, sent, sentBefore, loaded, writer, probe_zone, probe_eq>>
    /\ UNCHANGED <<callvars, loopvars, peervars, viewvars, histvars>>

\* ------------------------------------------------------------- get_status
\* The dict get_status builds from the monitor's fields as they are when it
\* reads them.
get_status ==
    [seen_earthquakes |-> Cardinality(seen_earthquakes),
     last_check |-> IF last_check # 0 THEN isoformat(last_check) ELSE <<"None">>,
     running |-> running,
     zones |-> Len(alert_zones),
     handlers |-> notification_handlers]

\* A get_status call from another thread than the one that polls: it takes
\* no lock, so it runs wherever the poll is.
GetStatus ==
    /\ pc # "load"
    /\ status' = <<get_status>>
    /\ UNCHANGED <<alert_zones, notification_handlers, seen_earthquakes, last_check, data_file,
                   clock, cmd, pc, sent, sentBefore, loaded, writer>>
    /\ UNCHANGED <<callvars, loopvars, peervars, probevars, emitted, web_req, web_resp, histvars>>

\* ------------------------------------------------------------- the web app
\* What the catalog returns to the web app's query.
WebEvents == {e \in Catalog \cup DashEvents : e.magnitude >= WebFloor}
WebSources == [kind : {"rows"}, rows : SeqsUpTo(WebEvents, MaxWebRows)]
              \cup [kind : {"request_error", "parse_error"}, rows : {<<>>}]

\* One entry of earthquakes_list.
earthquake_entry(eq) ==
    [magnitude |-> eq.magnitude, latitude |-> eq.latitude, longitude |-> eq.longitude,
     depth |-> eq.depth, time |-> isoformat(eq.time), location |-> eq.place]

\* Mutant: the list misses the first row of the DataFrame.
earthquakes_skips_first(src) ==
    LET r == fetch_earthquakes(src) IN
    IF r.raises THEN [status |-> 200, body |-> [error |-> "error", earthquakes |-> <<>>, count |-> 0]]
    ELSE IF r.rows = <<>> THEN [status |-> 200, body |-> [earthquakes |-> <<>>, count |-> 0]]
    ELSE LET earthquakes_list == [k \in 1..(Len(r.rows) - 1) |-> earthquake_entry(r.rows[k + 1])]
         IN [status |-> 200,
             body |-> [earthquakes |-> earthquakes_list, count |-> Len(earthquakes_list)]]

\* The /api/earthquakes view: the fetch, the empty answer, the list built row
\* by row, and the except clause around all of it.
earthquakes(src) ==
    LET r == fetch_earthquakes(src) IN
    IF r.raises THEN [status |-> 200, body |-> [error |-> "error", earthquakes |-> <<>>, count |-> 0]]
    ELSE IF r.rows = <<>> THEN [status |-> 200, body |-> [earthquakes |-> <<>>, count |-> 0]]
    ELSE LET earthquakes_list == [k \in 1..Len(r.rows) |-> earthquake_entry(r.rows[k])]
         IN [status |-> 200,
             body |-> [earthquakes |-> earthquakes_list, count |-> Len(earthquakes_list)]]

\* The /api/info view.
info ==
    [status |-> 200,
     body |-> [project |-> "MyProject",
               description |-> "A versatile Python toolkit with earthquake monitoring",
               capabilities |-> <<"CLI", "Web API", "Earthquake Monitoring",
                                  "Geospatial Analysis">>]]

\* The /api/health view.
health == [status |-> 200, body |-> [status |-> "healthy"]]

\* One GET request to the web app and its response.
Served(path, src, resp) ==
    /\ web_req' = <<[path |-> path, source |-> src]>>
    /\ web_resp' = <<resp>>
    /\ UNCHANGED <<alert_zones, notification_handlers, seen_earthquakes, last_check, data_file,
                   clock, cmd, pc, sent, sentBefore, loaded, writer>>
    /\ UNCHANGED <<callvars, loopvars, peervars, probevars, status, emitted, histvars>>

NoSource == [kind |-> "none", rows |-> <<>>]
GetEarthquakes(src) == Served("/api/earthquakes", src, earthquakes(src))
GetInfo == Served("/api/info", NoSource, info)
GetHealth == Served("/api/health", NoSource, health)

\* The zone loop of check_for_earthquakes for one new event and the
\* dashboard's zone list: the zone_name of the alert it builds.
AttributeDefault ==
    /\ probe_result = "none"
    /\ LET s == scan(<<probe_eq>>, 1, DefaultZones, {}, <<>>, clock) IN
         probe_result' = IF s.alerts = <<>> THEN "no alert" ELSE s.alerts[1].zone_name
    /\ UNCHANGED <<alert_zones, notification_handlers, seen_earthquakes, last_check, data_file,
                   clock, cmd, pc, sent, sentBefore, loaded, writer, probe_zone, probe_eq>>
    /\ UNCHANGED <<callvars, loopvars, peervars, viewvars, histvars>>

\* ------------------------------------------------------------- specifications
\* One monitor instance driven through its API.
Next ==
    \/ \E readable \in BOOLEAN : Load(readable)
    \/ \E z \in ZonePool, o \in SaveOutcomes : AddAlertZone(z, o)
    \/ AddNotificationHandler
    \/ \E src \in Sources : CheckBegin(src)
    \/ \E o \in SinkOutcomes : Dispatch(o)
    \/ \E o \in SaveOutcomes : Finish(o)
    \/ Return

Spec == Init /\ [][Next]_vars

\* Processes started from the command line, one after the other, in one
\* working directory.
NextCli ==
    \/ Next
    \/ \E c \in {"api", "alert_test"} : Construct(c)
    \/ \E o \in SaveOutcomes : AlertTestSetup(o)
    \/ AlertTestClear

SpecCli == InitCli /\ [][NextCli]_vars

\* Two monitors without zones in one working directory, each polling.
NextPeers ==
    \/ \E readable \in BOOLEAN : Load(readable)
    \/ \E src \in Sources : CheckBegin(src)
    \/ \E o \in SaveOutcomes : Finish(o)
    \/ Return
    \/ \E readable \in BOOLEAN : PeerConstruct(readable)
    \/ \E src \in Sources, o \in SaveOutcomes : PeerPoll(src, o)

SpecPeers == Init /\ [][NextPeers]_vars

\* contains_earthquake on its own, for every zone and event of the pools.
InitGeo ==
    /\ Constructed /\ NoPeer /\ NoViews
    /\ data_file = AbsentFile /\ writer = 0
    /\ clock = 1 /\ cmd = "api" /\ sentBefore = {}
    /\ probe_zone \in ProbeZones /\ probe_eq \in ProbeQuakes /\ probe_result = "none"

NextGeo == Probe

SpecGeo == InitGeo /\ [][NextGeo]_vars

\* A process that configures a monitor and starts polling: through the
\* monitor's API, or as the dashboard.
InitLoop ==
    /\ Constructed /\ Alone
    /\ data_file = AbsentFile /\ writer = 0
    /\ clock = 1 /\ cmd \in {"api", "dashboard"} /\ sentBefore = {}

\* What the catalog does with a polling thread's query.
LoopSources == {src \in Sources : src.rows \in {<<>>, <<Q1>>}}

LoopStep(t) ==
    \/ LoopTest(t)
    \/ \E src \in LoopSources, o \in SaveOutcomes : LoopCheck(t, src, o)
    \/ LoopWake(t)

NextLoop ==
    \/ \E readable \in BOOLEAN : Load(readable)
    \/ \E z \in LoopZonePool, o \in SaveOutcomes : AddAlertZone(z, o)
    \/ AddNotificationHandler
    \/ \E o \in SaveOutcomes : DashboardSetup(o)
    \/ StartMonitoring
    \/ StopMonitoring
    \/ DashboardStart
    \/ \E t \in Threads : LoopStep(t)

SpecLoop == InitLoop /\ [][NextLoop]_vars

\* The scheduler runs every polling thread, time.sleep returns and the fetch
\* returns or times out.
SpecLoopFair == SpecLoop /\ \A t \in Threads : WF_vars(LoopStep(t))

\* The dashboard's monitor, polled from one thread: the four default zones
\* and the WebSocket handler as its only sink.
InitDash ==
    /\ Constructed /\ Alone
    /\ data_file = AbsentFile /\ writer = 0
    /\ clock = 1 /\ cmd = "dashboard" /\ sentBefore = {}

DashFrames == {d \in SeqsUpTo(DashEvents, MaxFetch) : Len(d) > 0}
DashSources == [kind : {"rows"}, rows : DashFrames \cup {<<>>}]
               \cup [kind : {"request_error", "parse_error"}, rows : {<<>>}]

NextDash ==
    \/ \E readable \in BOOLEAN : Load(readable)
    \/ \E o \in SaveOutcomes : DashboardSetup(o)
    \/ \E src \in DashSources : CheckBegin(src)
    \/ \E o \in SinkOutcomes : Dispatch(o)
    \/ \E o \in SaveOutcomes : Finish(o)
    \/ Return

SpecDash == InitDash /\ [][NextDash]_vars

\* The dashboard's zone list on its own, for every event of the world grid.
InitWorld ==
    /\ Constructed /\ NoPeer /\ NoViews
    /\ data_file = AbsentFile /\ writer = 0
    /\ clock = 1 /\ cmd = "dashboard" /\ sentBefore = {}
    /\ probe_zone = DefaultZones[1] /\ probe_eq \in WorldQuakes /\ probe_result = "none"

NextWorld == AttributeDefault

SpecWorld == InitWorld /\ [][NextWorld]_vars

\* The web app serving requests.
NextWeb ==
    \/ \E src \in WebSources : GetEarthquakes(src)
    \/ GetInfo
    \/ GetHealth

SpecWeb == Init /\ [][NextWeb]_vars

\* A monitor that polls while another thread of the process asks for its
\* status.
StatusSources == {src \in Sources : src.rows \in {<<>>, <<Q1>>, <<Q1, Q2>>}}

NextStatus ==
    \/ \E readable \in BOOLEAN : Load(readable)
    \/ \E z \in LoopZonePool, o \in SaveOutcomes : AddAlertZone(z, o)
    \/ AddNotificationHandler
    \/ \E src \in StatusSources : CheckBegin(src)
    \/ \E o \in SinkOutcomes : Dispatch(o)
    \/ \E o \in SaveOutcomes : Finish(o)
    \/ Return
    \/ GetStatus

SpecStatus == Init /\ [][NextStatus]_vars

\* ------------------------------------------------------------- properties
\* What the specification says a zone contains: within radius_km of the
\* centre and at or above the zone's magnitude floor.
Inside(zone, eq) ==
    /\ eq.magnitude >= zone.min_magnitude
    /\ WithinRadius(zone, eq.latitude, eq.longitude)

InsideZones(eq) == {i \in 1..Len(alert_zones) : Inside(alert_zones[i], eq)}
AlertsFor(id) == {k \in 1..Len(new_alerts) : new_alerts[k].earthquake_id = id}
Lowest(S) == CHOOSE i \in S : \A j \in S : i <= j

\* A check_for_earthquakes call has scanned its rows.
Scanned == pc \in {"dispatch", "finish", "return"} /\ df # <<>>
\* The ids the call observed for the first time.
NewIds == RowIds(df) \ seen0

\* C1: an id that is in seen_earthquakes when a poll starts stays in it and
\* gets no Alert from that poll, however often the source returns it and
\* whatever zones are registered; no poll builds two Alerts for one id.
C1_IdempotentDedup ==
    Scanned =>
        /\ seen0 \subseteq seen_earthquakes
        /\ \A k \in 1..Len(new_alerts) : new_alerts[k].earthquake_id \notin seen0
        /\ \A id \in Ids : Cardinality(AlertsFor(id)) <= 1

\* A second poll got an already seen event again, a registered zone contains
\* it, and the poll has finished.
C1_Witness ==
    /\ pc = "return" /\ poll = "complete" /\ Polls = 2
    /\ \E i \in 1..Len(df) : df[i].id \in seen0 /\ InsideZones(df[i]) # {}

\* C2: no sink is ever called twice for one event id, and when a poll that
\* scanned rows returns, every sink has been called exactly once for every
\* event that the poll saw for the first time and some zone contains.
C2_ExactlyOnce ==
    /\ \A id \in Ids : \A h \in 1..MaxSinks : sent[id][h] <= 1
    /\ (pc = "return" /\ df # <<>>) =>
          \A id \in NewIds :
              InsideZones(RowOf(df, id)) # {} =>
                  \A h \in 1..notification_handlers : sent[id][h] = 1

\* The second poll returns; it got an event again that the first poll had
\* delivered to both sinks, and delivered a new one.
C2_Witness ==
    /\ pc = "return" /\ Polls = 2 /\ notification_handlers = 2
    /\ \E id \in RowIds(df) \cap seen0 : sent[id][1] = 1 /\ sent[id][2] = 1
    /\ \E id \in NewIds : sent[id][1] = 1 /\ sent[id][2] = 1

\* C3: a new event inside exactly one registered zone gets exactly one Alert,
\* named after that zone; a new event inside no registered zone gets none.
C3_SingleZone ==
    Scanned =>
        \A id \in NewIds :
            LET zs == InsideZones(RowOf(df, id)) IN
            /\ Cardinality(zs) = 1 =>
                  /\ Cardinality(AlertsFor(id)) = 1
                  /\ \A k \in AlertsFor(id) :
                        new_alerts[k].zone_name = alert_zones[Lowest(zs)].name
            /\ zs = {} => AlertsFor(id) = {}

\* One poll saw a new event that only the second of two zones contains, and a
\* new event that no zone contains.
C3_Witness ==
    /\ Scanned /\ Len(alert_zones) = 2
    /\ \E id \in NewIds : InsideZones(RowOf(df, id)) = {2} /\ AlertsFor(id) # {}
    /\ \E id \in NewIds : InsideZones(RowOf(df, id)) = {}

\* C4: a new event inside two or more registered zones gets exactly one
\* Alert, named after the earliest registered of them.
C4_FirstMatchWins ==
    Scanned =>
        \A id \in NewIds :
            LET zs == InsideZones(RowOf(df, id)) IN
            Cardinality(zs) >= 2 =>
                /\ Cardinality(AlertsFor(id)) = 1
                /\ \A k \in AlertsFor(id) :
                      new_alerts[k].zone_name = alert_zones[Lowest(zs)].name

\* A new event lies inside two zones with different names.
C4_Witness ==
    /\ Scanned
    /\ \E id \in NewIds :
          /\ InsideZones(RowOf(df, id)) = {1, 2}
          /\ alert_zones[1].name # alert_zones[2].name
          /\ AlertsFor(id) # {}

\* C5: a poll in which a sink raised still calls every sink for every Alert,
\* sets last_check and runs _save_state before it returns.
C5_SinkIsolation ==
    (raised /\ pc = "return") =>
        /\ poll = "complete"
        /\ calls = Len(new_alerts) * notification_handlers
        /\ \A k \in 1..Len(new_alerts) : \A h \in 1..notification_handlers :
              sent[new_alerts[k].earthquake_id][h] >= 1
        /\ last_check = clock
        /\ saved # "none"

\* A poll with two Alerts and two sinks returns after a sink raised.
C5_Witness ==
    /\ pc = "return" /\ raised /\ calls = 4
    /\ Len(new_alerts) = 2 /\ notification_handlers = 2

\* C6: an id in a monitor's seen_earthquakes is still in it after every step
\* of that monitor (every step but the construction of a new instance).
C6_SeenMonotone ==
    [][pc' # "load" => seen_earthquakes \subseteq seen_earthquakes']_vars

\* C7: every event a poll fetched is in seen_earthquakes when the poll
\* returns, matched or not, zones or none.
C7_AllFetchedSeen ==
    (pc = "return" /\ df # <<>>) => RowIds(df) \subseteq seen_earthquakes

\* A poll of a monitor without zones fetched two unseen events and returns.
C7_Witness ==
    /\ pc = "return" /\ alert_zones = <<>> /\ new_alerts = <<>>
    /\ Cardinality(NewIds) = 2

\* C8: every poll cycle ends with last_check set to the current time and
\* _save_state run.
C8_EveryPollSaves ==
    pc = "return" => (last_check = clock /\ saved # "none")

\* C9: a new instance never calls send_alert for an event id for which an
\* earlier instance has called it.
C9_NoReAlertAfterRestart ==
    \A id \in sentBefore : \A h \in 1..MaxSinks : sent[id][h] = 0

\* C10: a poll whose fetch failed with a request error takes the
\* empty-result return: no Alert, no sink call, seen_earthquakes as before,
\* no exception to the caller.
C10_FetchFailureIsEmpty ==
    (pc = "return" /\ src_kind = "request_error") =>
        /\ poll = "empty"
        /\ new_alerts = <<>>
        /\ calls = 0
        /\ seen_earthquakes = seen0
        /\ ~escaped

\* The fetch of a monitor with zones, sinks and seen ids failed.
C10_Witness ==
    /\ pc = "return" /\ src_kind = "request_error"
    /\ alert_zones # <<>> /\ notification_handlers > 0 /\ seen0 # {}

\* C11: a polling thread ends only after stop_monitoring was called, and a
\* failed cycle (fetch error or exception in the cycle) of a loop that was not
\* told to stop is followed by another cycle of that loop.
C11_FailedCycleRetried ==
    /\ [](\A t \in Threads : thr[t] = "done" => stopped[t])
    /\ \A t \in Threads :
          (thr[t] = "sleep" /\ last[t] = "failed" /\ ~stopped[t])
              ~> (thr[t] = "check" \/ stopped[t])

\* A loop that was not told to stop is in a cycle again after a failed one.
C11_Witness ==
    \E t \in Threads : thr[t] = "check" /\ last[t] = "failed" /\ ~stopped[t]

\* C12: a start_monitoring call on a monitor without zones or without sinks
\* starts nothing: no thread, no poll, running stays False; and no polling
\* loop of either entry point ever runs on such a monitor.
C12_RefusesUnconfigured ==
    /\ start_result \in {"no_zones", "no_handlers"} =>
          (~running /\ thr = NoThreads /\ Polls = 0)
    /\ (running \/ thr # NoThreads) =>
          (alert_zones # <<>> /\ notification_handlers > 0)

\* start_monitoring was called on a monitor with a zone and no sink.
C12_Witness ==
    start_result = "no_handlers" /\ alert_zones # <<>> /\ pc = "idle"

\* C13: two polling threads of one monitor are never inside
\* check_for_earthquakes at the same time.
C13_SinglePoller ==
    Cardinality({t \in Threads : thr[t] = "check"}) <= 1

\* C14: a polling thread that was alive when stop_monitoring was called
\* enters no further cycle.
C14_NoCycleAfterStop ==
    \A t \in Threads : ~late[t]

\* C16: every registered zone has min_magnitude at or above the poll's fetch
\* floor, so every catalog event that a registered zone contains is among the
\* rows a poll can fetch.
C16_FloorBelowZones ==
    /\ \A i \in 1..Len(alert_zones) : alert_zones[i].min_magnitude >= FetchFloor
    /\ \A e \in Catalog : InsideZones(e) # {} => e \in Events

\* C15: a save of the second instance over a state file that the first
\* instance wrote keeps every id the first instance had persisted.
C15_ExclusiveState ==
    [][(writer = 1 /\ writer' = 2 /\ data_file.state = "valid") =>
          (data_file'.state = "valid"
           /\ data_file.seen_earthquakes \subseteq data_file'.seen_earthquakes)]_vars

\* Squared flat-earth distance in km^2 between a zone's centre and an event.
Dist2(zone, eq) ==
    (KmPerDegree * (zone.center_lat - eq.latitude)) * (KmPerDegree * (zone.center_lat - eq.latitude))
    + (KmPerDegree * (zone.center_lon - eq.longitude)) * (KmPerDegree * (zone.center_lon - eq.longitude))
AtCentre(zone, eq) == eq.latitude = zone.center_lat /\ eq.longitude = zone.center_lon
Probed == probe_result # "none"

\* C17 as stated: for every zone, an event at the zone's centre with
\* magnitude >= min_magnitude matches, and an event more than radius_km/111
\* degrees away in latitude and in longitude does not match.
C17_DistanceTest ==
    Probed =>
        /\ (AtCentre(probe_zone, probe_eq) /\ probe_eq.magnitude >= probe_zone.min_magnitude)
              => probe_result = "true"
        /\ (KmPerDegree * Abs(probe_zone.center_lat - probe_eq.latitude) > probe_zone.radius_km
            /\ KmPerDegree * Abs(probe_zone.center_lon - probe_eq.longitude) > probe_zone.radius_km)
              => probe_result = "false"

\* C17 amended: the centre matches for every zone with radius_km >= 0; the
\* far event matches for no zone.
C17_DistanceTestNonNegativeRadius ==
    Probed =>
        /\ (AtCentre(probe_zone, probe_eq) /\ probe_eq.magnitude >= probe_zone.min_magnitude
            /\ probe_zone.radius_km >= 0)
              => probe_result = "true"
        /\ (KmPerDegree * Abs(probe_zone.center_lat - probe_eq.latitude) > probe_zone.radius_km
            /\ KmPerDegree * Abs(probe_zone.center_lon - probe_eq.longitude) > probe_zone.radius_km)
              => probe_result = "false"

\* An event at the floor magnitude matched at the centre of a zone of radius 0.
C17_Witness ==
    /\ probe_result = "true" /\ AtCentre(probe_zone, probe_eq)
    /\ probe_zone.radius_km = 0 /\ probe_eq.magnitude = probe_zone.min_magnitude

\* C18: an event below the zone's min_magnitude never matches, at any
\* distance; at exactly min_magnitude the distance alone decides.
C18_MagnitudeFloor ==
    Probed =>
        /\ probe_eq.magnitude < probe_zone.min_magnitude => probe_result = "false"
        /\ probe_eq.magnitude = probe_zone.min_magnitude =>
              (probe_result = "true" <=>
                  (probe_zone.radius_km >= 0
                   /\ Dist2(probe_zone, probe_eq) <= probe_zone.radius_km * probe_zone.radius_km))

\* An M3.9 event at the centre of a zone with floor 4.0 did not match.
C18_Witness ==
    /\ probe_result = "false" /\ AtCentre(probe_zone, probe_eq)
    /\ probe_zone.radius_km > 0 /\ probe_eq.magnitude < probe_zone.min_magnitude

\* C19: for the zone (0,0), 200 km, M4.0 the M5.0 event at (1,1) matches and
\* the M5.0 event at (5,5) does not; an event at a distance of exactly
\* radius_km matches.
C19_FlatEarthScenarios ==
    Probed =>
        /\ (probe_zone = AlertZone("Test", 0, 0, 200, 40) /\ probe_eq = Quake(0, 50, 1, 1))
              => probe_result = "true"
        /\ (probe_zone = AlertZone("Test", 0, 0, 200, 40) /\ probe_eq = Quake(0, 50, 5, 5))
              => probe_result = "false"
        /\ (probe_zone.radius_km >= 0
            /\ Dist2(probe_zone, probe_eq) = probe_zone.radius_km * probe_zone.radius_km
            /\ probe_eq.magnitude >= probe_zone.min_magnitude)
              => probe_result = "true"

\* An event one degree from the centre of a zone of 111 km was tested.
C19_Witness ==
    /\ Probed /\ probe_zone.radius_km = 111
    /\ Dist2(probe_zone, probe_eq) = 111 * 111
    /\ probe_eq.magnitude >= probe_zone.min_magnitude

\* C20: a constructor whose _load_state failed ends with empty
\* seen_earthquakes and no last_check; a poll whose _save_state failed still
\* completes, raises nothing and keeps seen_earthquakes and last_check.
C20_VolatileOnFailure ==
    [][/\ (pc = "load" /\ pc' # "load" /\ loaded' = "failed") =>
              (seen_earthquakes' = {} /\ last_check' = 0)
       /\ (pc = "finish" /\ pc' = "return" /\ saved' # "ok") =>
              (poll' = "complete" /\ ~escaped'
               /\ seen_earthquakes' = seen_earthquakes /\ last_check' = clock')]_vars

\* C21: add_alert_zone, add_notification_handler, get_status, start_monitoring
\* and stop_monitoring leave seen_earthquakes and last_check as they are, in
\* memory and as a load of alert_data.json would read them; add_alert_zone
\* appends its zone at the end of alert_zones, duplicates included.
StateRecord(file) ==
    LET st == load_state(file, TRUE) IN <<st.seen_earthquakes, st.last_check>>

ConfigStep ==
    \/ alert_zones' # alert_zones
    \/ notification_handlers' # notification_handlers
    \/ status' # status
    \/ running' # running

C21_ConfigKeepsState ==
    [][(pc # "load" /\ ConfigStep) =>
          /\ seen_earthquakes' = seen_earthquakes /\ last_check' = last_check
          /\ StateRecord(data_file') = StateRecord(data_file)
          /\ alert_zones' # alert_zones =>
                \E z \in ZonePool \cup LoopZonePool : alert_zones' = Append(alert_zones, z)]_vars

\* C22: a get_status call that runs while a poll is between its scan and its
\* last_check assignment does not return the poll's seen_earthquakes count
\* together with the previous poll's last_check.
C22_NoTornStatus ==
    [][(status' # status /\ pc \in {"dispatch", "finish"}) =>
          status'[1].seen_earthquakes = Cardinality(seen0)]_vars

\* C23: every send_alert call on the DashboardNotificationHandler appends
\* exactly one message to what the socket emitted, carrying the alert's id,
\* magnitude, location, latitude, longitude, depth, time, zone_name,
\* alert_time and tsunami_warning (the two times as ISO 8601 text), and
\* returns success; nothing else emits.
Forwards(msg, alert) ==
    /\ DOMAIN msg = {"id", "magnitude", "location", "latitude", "longitude", "depth",
                     "time", "zone_name", "alert_time", "tsunami_warning"}
    /\ msg.id = alert.earthquake_id /\ msg.magnitude = alert.magnitude
    /\ msg.location = alert.location
    /\ msg.latitude = alert.latitude /\ msg.longitude = alert.longitude
    /\ msg.depth = alert.depth /\ msg.zone_name = alert.zone_name
    /\ msg.tsunami_warning = alert.tsunami_warning
    /\ msg.time[1] = "iso8601" /\ fromisoformat(msg.time) = alert.time
    /\ msg.alert_time[1] = "iso8601" /\ fromisoformat(msg.alert_time) = alert.alert_time

C23_ForwardsVerbatim ==
    [][IF calls' = calls + 1
       THEN /\ Len(emitted') = Len(emitted) + 1
            /\ SubSeq(emitted', 1, Len(emitted)) = emitted
            /\ Forwards(emitted'[Len(emitted')], new_alerts[aidx])
            /\ undelivered' = undelivered /\ raised' = raised
       ELSE emitted' = emitted]_vars

\* Two alerts of one poll, for different zones, have been forwarded.
C23_Witness ==
    /\ cmd = "dashboard" /\ pc = "finish"
    /\ Len(new_alerts) = 2 /\ Len(emitted) = 2
    /\ emitted[1].zone_name # emitted[2].zone_name
    /\ \A k \in 1..2 : emitted[k].id = new_alerts[k].earthquake_id

\* C24: the response of /api/earthquakes is an object whose count is the
\* length of its earthquakes list; it is the number of rows the fetch
\* returned, and the list is empty with count 0 when the fetch returned no
\* row, failed, or raised.
Asked(path) == web_req # <<>> /\ web_req[1].path = path

C24_CountIsLength ==
    Asked("/api/earthquakes") =>
        LET src == web_req[1].source
            body == web_resp[1].body
            fetched == IF src.kind = "rows" THEN Len(src.rows) ELSE 0
        IN /\ web_resp[1].status = 200
           /\ {"earthquakes", "count"} \subseteq DOMAIN body
           /\ body.count = Len(body.earthquakes)
           /\ body.count = fetched
           /\ \A k \in 1..fetched : body.earthquakes[k].magnitude = src.rows[k].magnitude

\* A full result has been served.
C24_Witness ==
    /\ Asked("/api/earthquakes")
    /\ web_req[1].source.kind = "rows"
    /\ web_resp[1].body.count = MaxWebRows

\* C25: the response of /api/info has status 200, project 'SeismoWatch' and
\* capabilities that include 'CLI', 'Web API' and 'Earthquake Monitoring'.
C25_InfoNamesProject ==
    Asked("/api/info") =>
        LET body == web_resp[1].body IN
        /\ web_resp[1].status = 200
        /\ body.project = "SeismoWatch"
        /\ {"CLI", "Web API", "Earthquake Monitoring"}
              \subseteq {body.capabilities[k] : k \in DOMAIN body.capabilities}

\* C26: alert_data.json never holds the id of an event whose alert still
\* waits for a send_alert call; it is not written while alerts are being
\* dispatched; and when the dispatch of a poll ends, send_alert has been called
\* for every alert of the poll on every registered sink.
Pending ==
    IF pc = "dispatch"
    THEN {new_alerts[k].earthquake_id : k \in aidx..Len(new_alerts)}
    ELSE {}

C26_PersistedAreDelivered ==
    [][/\ pc = "dispatch" => data_file' = data_file
       /\ data_file'.seen_earthquakes \cap Pending' = {}
       /\ (pc' = "finish" /\ pc # "finish") =>
             \A k \in DOMAIN new_alerts', h \in 1..notification_handlers' :
                sent'[new_alerts'[k].earthquake_id][h] >= 1]_vars

\* A poll with two alerts and two sinks has saved its ids.
C26_Witness ==
    /\ pc = "return" /\ poll = "complete" /\ saved = "ok"
    /\ Len(new_alerts) = 2 /\ notification_handlers = 2 /\ calls = 4
    /\ \A k \in 1..2 : new_alerts[k].earthquake_id \in data_file.seen_earthquakes

\* C27: a fetched result that holds an event id more than once yields at most
\* one alert for that id, and the id is in seen_earthquakes after the scan.
Repeated(rows) == {rows[i].id : i \in {j \in DOMAIN rows : \E l \in DOMAIN rows : l # j /\ rows[l].id = rows[j].id}}

C27_DuplicateRowsAlertOnce ==
    \A id \in Repeated(df) :
        /\ Cardinality({k \in DOMAIN new_alerts : new_alerts[k].earthquake_id = id}) <= 1
        /\ id \in seen_earthquakes

\* A new event inside a zone came twice in one result and raised one alert.
C27_Witness ==
    \E id \in Repeated(df) :
        /\ id \notin seen0
        /\ Cardinality({k \in DOMAIN new_alerts : new_alerts[k].earthquake_id = id}) = 1

\* C28: no poll builds an alert for an event that an earlier poll of this
\* monitor scanned while no registered zone contained it, whatever zones have
\* been added since; such an event is in seen_earthquakes.
C28_LateZonesStaySilent ==
    [][/\ missed' \subseteq seen_earthquakes'
       /\ new_alerts' # new_alerts =>
             \A k \in DOMAIN new_alerts' : new_alerts'[k].earthquake_id \notin missed]_vars

\* An event scanned before any zone contained it came again after such a zone
\* was added, and raised no alert.
C28_Witness ==
    /\ pc = "finish"
    /\ \E id \in missed \cap seen0 \cap RowIds(df) :
          /\ first_match(alert_zones, RowOf(df, id)) # 0
          /\ \A k \in DOMAIN new_alerts : new_alerts[k].earthquake_id # id

\* C29: send_alert is called on a sink for an event only if it was never
\* called on that sink for that event, and for an event with a failed or
\* raising call only within the poll of that call; such an event stays in
\* seen_earthquakes.
C29_NoRetry ==
    [][/\ undelivered' \subseteq seen_earthquakes'
       /\ calls' = calls + 1 =>
             LET id == new_alerts[aidx].earthquake_id IN
             /\ sent[id][hidx] = 0
             /\ id \in undelivered => id \notin seen0]_vars

\* An event with a failed send came again in a later poll, inside a zone and
\* with a sink registered, and no send_alert call was made.
C29_Witness ==
    /\ pc = "finish" /\ calls = 0 /\ notification_handlers > 0
    /\ \E id \in undelivered \cap seen0 \cap RowIds(df) :
          first_match(alert_zones, RowOf(df, id)) # 0

\* C30: with the dashboard's zone list, the alert for a new event of
\* magnitude 6.0 or more, wherever it is, names 'Global Major Events'.
C30_MajorEventsAreGlobal ==
    (probe_result # "none" /\ probe_eq.magnitude >= 60) =>
        /\ Inside(DefaultZones[1], probe_eq)
        /\ probe_result = "Global Major Events"

\* An M6+ event at the centre of the Japan zone has been attributed.
C30_Witness ==
    /\ probe_result = "Global Major Events"
    /\ probe_eq.magnitude >= 60
    /\ Inside(DefaultZones[4], probe_eq)

====
